---- MODULE Spec2Model ----
(***************************************************************************)
(* The task list of src/src/App.tsx: the todos state with its handlers     *)
(* (addTodo, toggleTodo, deleteTodo, startEditing, saveEdit, cancelEdit,   *)
(* clearCompleted), the filter projection, id generation, and the          *)
(* localStorage round trip (useState initializer / useEffect).             *)
(*                                                                         *)
(* Strings are sequences of one-character strings, so that trim, base-36   *)
(* formatting and concatenation are computed and not assumed.  The stored  *)
(* text is a sequence of JSON tokens produced by Stringify and read back   *)
(* by Parse.                                                               *)
(***************************************************************************)
EXTENDS Integers, Sequences, FiniteSets, TLC

VARIABLES
    todos,      \* the value of the todos state: a JS value (JArr(..) when an array)
    newTodo,    \* the add-form draft text
    editingId,  \* id of the task being edited, or Null
    editText,   \* the edit draft text
    filter,     \* "all" | "active" | "completed"
    storage,    \* the localStorage entry under STORAGE_KEY
    now,        \* the last value Date.now() returned
    mounted,    \* the first render succeeded and its effects have run
    issued,     \* history: the ids generateId has returned in this session
    lastEvent   \* history: the handler that ran last

vars == <<todos, newTodo, editingId, editText, filter, storage, now, mounted, issued,
          lastEvent>>

----------------------------------------------------------------------------
(* Bounds *)

\* add is not offered once the collection holds MaxTodos tasks
MaxTodos == 2
\* Date.now() returns 1..MaxClock in this session (a previous session stored
\* its tasks at time 0)
MaxClock == 1
\* Math.random() returns 0 or one of MaxRand non-zero fractions
MaxRand == 1

\* the texts typed into the two inputs: "", " ", "x", " y "
Strings == { <<>>, <<" ">>, <<"x">>, <<" ", "y", " ">> }


----------------------------------------------------------------------------
(* Strings *)

RECURSIVE TrimStart(_)
TrimStart(s) == IF Len(s) > 0 /\ s[1] = " " THEN TrimStart(Tail(s)) ELSE s

RECURSIVE TrimEnd(_)
TrimEnd(s) ==
    IF Len(s) > 0 /\ s[Len(s)] = " " THEN TrimEnd(SubSeq(s, 1, Len(s) - 1)) ELSE s

\* String.prototype.trim
trim(s) == TrimEnd(TrimStart(s))

Digits36 ==
    << "0", "1", "2", "3", "4", "5", "6", "7", "8", "9", "a", "b",
       "c", "d", "e", "f", "g", "h", "i", "j", "k", "l", "m", "n",
       "o", "p", "q", "r", "s", "t", "u", "v", "w", "x", "y", "z" >>

\* Number.prototype.toString(36) of a non-negative integer
RECURSIVE ToString36(_)
ToString36(n) ==
    IF n < 36 THEN <<Digits36[n + 1]>>
    ELSE ToString36(n \div 36) \o <<Digits36[(n % 36) + 1]>>

\* Math.random() is modelled by its base-36 fraction digits: <<>> is 0,
\* <<d>> is d/36.  toString(36) gives "0" for 0 and "0.d" otherwise.
Randoms == {<<>>} \cup {<<d>> : d \in 1..MaxRand}

FractionToString36(r) ==
    IF r = <<>> THEN <<"0">>
    ELSE <<"0", ".">> \o [i \in 1..Len(r) |-> Digits36[r[i] + 1]]

\* String.prototype.substr(2)
substr2(s) == SubSeq(s, 3, Len(s))

\* generateId with the values its Date.now() and Math.random() calls return
generateId(t, r) == ToString36(t) \o substr2(FractionToString36(r))

\* editingId === null
Null == <<"null">>

----------------------------------------------------------------------------
(* JS values and JSON *)

\* A JS value as the todos state can hold it: an array of task objects, or
\* one of the non-array values JSON.parse can return.
JArr(items) == [tag |-> "array", items |-> items, num |-> 0]
JNull == [tag |-> "null", items |-> <<>>, num |-> 0]
JNum(n) == [tag |-> "number", items |-> <<>>, num |-> n]
JObj == [tag |-> "object", items |-> <<>>, num |-> 0]

\* interface Todo
Todo(id, text, completed, createdAt) ==
    [id |-> id, text |-> text, completed |-> completed, createdAt |-> createdAt]

\* JSON tokens: punctuation, key, string, number, true/false/null
Tok(k, v) == [k |-> k, v |-> v]
Punct(p) == Tok(p, <<>>)
Key(name) == Tok("key", <<name>>)
Str(s) == Tok("str", s)

\* decimal digits of a non-negative integer, and back
RECURSIVE ToDecimal(_)
ToDecimal(n) ==
    IF n < 10 THEN <<Digits36[n + 1]>>
    ELSE ToDecimal(n \div 10) \o <<Digits36[(n % 10) + 1]>>

DigitValue(c) == CHOOSE d \in 0..9 : Digits36[d + 1] = c

RECURSIVE FromDecimal(_)
FromDecimal(s) ==
    IF Len(s) = 1 THEN DigitValue(s[1])
    ELSE 10 * FromDecimal(SubSeq(s, 1, Len(s) - 1)) + DigitValue(s[Len(s)])

Num(n) == Tok("num", ToDecimal(n))
Bool(b) == Punct(IF b THEN "true" ELSE "false")

StringifyTodo(t) ==
    << Punct("{"), Key("id"), Str(t.id), Key("text"), Str(t.text),
       Key("completed"), Bool(t.completed), Key("createdAt"), Num(t.createdAt),
       Punct("}") >>

RECURSIVE StringifyItems(_)
StringifyItems(items) ==
    IF items = <<>> THEN <<>>
    ELSE IF Len(items) = 1 THEN StringifyTodo(items[1])
    ELSE StringifyTodo(items[1]) \o <<Punct(",")>> \o StringifyItems(Tail(items))

\* JSON.stringify(todos) for an array of Todo
Stringify(items) == <<Punct("[")>> \o StringifyItems(items) \o <<Punct("]")>>

\* the tokens of one object with the four Todo members
IsTodoTokens(o) ==
    /\ Len(o) = 10
    /\ o[1] = Punct("{") /\ o[10] = Punct("}")
    /\ o[2] = Key("id") /\ o[3].k = "str"
    /\ o[4] = Key("text") /\ o[5].k = "str"
    /\ o[6] = Key("completed") /\ o[7].k \in {"true", "false"}
    /\ o[8] = Key("createdAt") /\ o[9].k = "num"

ParseTodo(o) == Todo(o[3].v, o[5].v, o[7].k = "true", FromDecimal(o[9].v))

SyntaxError == [ok |-> FALSE, value |-> JNull]
Parsed(v) == [ok |-> TRUE, value |-> v]

\* the elements between "[" and "]": object (, object)*
RECURSIVE ParseItems(_)
ParseItems(toks) ==
    IF Len(toks) < 10 \/ ~IsTodoTokens(SubSeq(toks, 1, 10)) THEN SyntaxError
    ELSE IF Len(toks) = 10 THEN Parsed(JArr(<<ParseTodo(toks)>>))
    ELSE IF toks[11] # Punct(",") THEN SyntaxError
    ELSE LET rest == ParseItems(SubSeq(toks, 12, Len(toks)))
         IN  IF rest.ok
             THEN Parsed(JArr(<<ParseTodo(SubSeq(toks, 1, 10))>> \o rest.value.items))
             ELSE SyntaxError

\* JSON.parse on the texts the model's storage can hold: a literal, a number,
\* the empty object, or an array of Todo-shaped objects; anything else among
\* them is not JSON and throws (ok = FALSE).
Parse(toks) ==
    IF Len(toks) = 0 THEN SyntaxError
    ELSE IF toks = <<Punct("null")>> THEN Parsed(JNull)
    ELSE IF Len(toks) = 1 /\ toks[1].k = "num" THEN Parsed(JNum(FromDecimal(toks[1].v)))
    ELSE IF toks = <<Punct("{"), Punct("}")>> THEN Parsed(JObj)
    ELSE IF toks[1] = Punct("[") /\ toks[Len(toks)] = Punct("]") /\ Len(toks) >= 2
    THEN IF Len(toks) = 2 THEN Parsed(JArr(<<>>))
         ELSE ParseItems(SubSeq(toks, 2, Len(toks) - 1))
    ELSE SyntaxError

\* localStorage.getItem: null when the key is missing, else the stored text
NoItem == [present |-> FALSE, text |-> <<>>]
Item(text) == [present |-> TRUE, text |-> text]

\* the useState initializer: if (saved) { try { JSON.parse } catch { [] } } return []
useStateInit(item) ==
    IF item.present /\ item.text # <<>>
    THEN LET p == Parse(item.text) IN IF p.ok THEN p.value ELSE JArr(<<>>)
    ELSE JArr(<<>>)

----------------------------------------------------------------------------
(* What localStorage can hold when the page is opened *)

\* tasks a previous session (at time 0) stored
OldTask == Todo(generateId(0, <<>>), <<"x">>, FALSE, 0)
OldDone == Todo(generateId(0, <<1>>), <<"x", "x">>, TRUE, 0)
\* a Todo-shaped object some other writer stored: its text is one blank
BlankTask == Todo(generateId(0, <<>>), <<" ">>, FALSE, 0)

\* texts JSON.parse throws on
CorruptTexts == { <<Punct("[")>>, <<Punct("["), Punct("{"), Punct("]")>> }
\* JSON that is not an array: null, 7, {}
NonArrayTexts == { <<Punct("null")>>, <<Num(7)>>, <<Punct("{"), Punct("}")>> }
\* arrays save() wrote in a previous session
SavedTexts ==
    { Stringify(<<>>), Stringify(<<OldTask>>), Stringify(<<OldTask, OldDone>>) }
\* an array of Todo-shaped objects that are not tasks (text not trimmed non-empty)
ForeignArrayTexts == { Stringify(<<BlankTask>>) }

InitialStorage ==
    {NoItem, Item(<<>>)}
        \cup {Item(t) : t \in CorruptTexts \cup NonArrayTexts}
        \cup {Item(t) : t \in SavedTexts \cup ForeignArrayTexts}

\* missing, empty, unparsable, or JSON that is not an array of tasks
Malformed(item) ==
    \/ ~item.present
    \/ item.text \in {<<>>} \cup CorruptTexts \cup NonArrayTexts \cup ForeignArrayTexts

----------------------------------------------------------------------------
(* Render *)

\* todos.filter(...) at line 110 throws unless todos is an array: the first
\* render fails, the component never mounts and no handler can run.
Renders == todos.tag = "array"

\* Matches without its "active" branch
MatchesNoActive(f, todo) == IF f = "completed" THEN todo.completed ELSE TRUE

\* the filter callback of lines 110-114
Matches(f, todo) ==
    IF f = "active" THEN ~todo.completed
    ELSE IF f = "completed" THEN todo.completed
    ELSE TRUE

Filtered(items, f) == SelectSeq(items, LAMBDA t : Matches(f, t))

filteredTodos == Filtered(todos.items, filter)
activeCount == Len(SelectSeq(todos.items, LAMBDA t : ~t.completed))
completedCount == Len(SelectSeq(todos.items, LAMBDA t : t.completed))

\* positions of the tasks the list renders (line 218)
Rendered == {i \in DOMAIN todos.items : Matches(filter, todos.items[i])}

\* the edit input is rendered for a listed task with editingId === todo.id (line 252)
EditInputShown == \E i \in Rendered : todos.items[i].id = editingId

Ids(items) == {items[i].id : i \in DOMAIN items}

----------------------------------------------------------------------------
(* State *)

\* the useState initializers of lines 17-31 have run; no effect has run yet
Init ==
    /\ storage \in InitialStorage
    /\ todos = useStateInit(storage)
    /\ newTodo = <<>>
    /\ editingId = Null
    /\ editText = <<>>
    /\ filter = "all"
    /\ now = 1
    /\ mounted = FALSE
    /\ issued = {}
    /\ lastEvent = "init"

\* the first render and, after it, the effect of lines 35-37
Mount ==
    /\ ~mounted
    /\ Renders
    /\ mounted' = TRUE
    /\ storage' = Item(Stringify(todos.items))
    /\ lastEvent' = "mount"
    /\ UNCHANGED <<todos, newTodo, editingId, editText, filter, now, issued>>

\* setTodos without the persisting effect
setTodosUnsaved(items) ==
    /\ todos' = JArr(items)
    /\ UNCHANGED storage

\* setTodos(items) followed by the effect of lines 35-37, which runs before
\* the next event: localStorage.setItem(STORAGE_KEY, JSON.stringify(todos))
setTodos(items) ==
    /\ todos' = JArr(items)
    /\ storage' = Item(Stringify(items))

\* onChange of the add-form input (line 159)
setNewTodo(text) ==
    /\ newTodo' = text
    /\ lastEvent' = "setNewTodo"
    /\ UNCHANGED <<todos, storage, editingId, editText, filter, now, mounted, issued>>

\* addTodo appending the new task instead of prepending it
addTodoAppend ==
    LET trimmed == trim(newTodo) IN
    /\ lastEvent' = "addTodo"
    /\ \/ /\ trimmed = <<>>
          /\ UNCHANGED <<todos, storage, newTodo, now, issued>>
       \/ /\ trimmed # <<>>
          /\ Len(todos.items) < MaxTodos
          /\ \E t1 \in now..MaxClock, r \in Randoms :
               \E t2 \in t1..MaxClock :
                 LET todo == Todo(generateId(t1, r), trimmed, FALSE, t2) IN
                 /\ setTodos(todos.items \o <<todo>>)
                 /\ issued' = issued \cup {todo.id}
                 /\ now' = t2
          /\ newTodo' = <<>>
    /\ UNCHANGED <<editingId, editText, filter, mounted>>

\* lines 45-60; t1, t2 are what the two Date.now() calls return, r is Math.random()
addTodo ==
    LET trimmed == trim(newTodo) IN
    /\ lastEvent' = "addTodo"
    /\ \/ /\ trimmed = <<>>
          /\ UNCHANGED <<todos, storage, newTodo, now, issued>>
       \/ /\ trimmed # <<>>
          /\ Len(todos.items) < MaxTodos
          /\ \E t1 \in now..MaxClock, r \in Randoms :
               \E t2 \in t1..MaxClock :
                 LET todo == Todo(generateId(t1, r), trimmed, FALSE, t2) IN
                 /\ setTodos(<<todo>> \o todos.items)
                 /\ issued' = issued \cup {todo.id}
                 /\ now' = t2
          /\ newTodo' = <<>>
    /\ UNCHANGED <<editingId, editText, filter, mounted>>

\* lines 62-68
toggleTodo(id) ==
    /\ setTodos([i \in DOMAIN todos.items |->
                   IF todos.items[i].id = id
                   THEN [todos.items[i] EXCEPT !.completed = ~todos.items[i].completed]
                   ELSE todos.items[i]])
    /\ lastEvent' = "toggleTodo"
    /\ UNCHANGED <<newTodo, editingId, editText, filter, now, mounted, issued>>

\* deleteTodo by findIndex and splice: an absent id gives index -1, and
\* splice(-1, 1) removes the last task
deleteTodoSplice(id) ==
    LET items == todos.items
        found == {i \in DOMAIN items : items[i].id = id}
        idx == IF found # {} THEN CHOOSE i \in found : \A j \in found : i <= j
               ELSE Len(items)
    IN
    /\ setTodos([i \in 1..(Len(items) - (IF idx > 0 THEN 1 ELSE 0)) |->
                   IF i < idx THEN items[i] ELSE items[i + 1]])
    /\ lastEvent' = "deleteTodo"
    /\ UNCHANGED <<newTodo, editingId, editText, filter, now, mounted, issued>>

\* lines 70-72
deleteTodo(id) ==
    /\ setTodos(SelectSeq(todos.items, LAMBDA t : t.id # id))
    /\ lastEvent' = "deleteTodo"
    /\ UNCHANGED <<newTodo, editingId, editText, filter, now, mounted, issued>>

\* lines 74-77
startEditing(todo) ==
    /\ editingId' = todo.id
    /\ editText' = todo.text
    /\ lastEvent' = "startEditing"
    /\ UNCHANGED <<todos, storage, newTodo, filter, now, mounted, issued>>

\* onChange of the edit input (line 257)
setEditText(text) ==
    /\ editText' = text
    /\ lastEvent' = "setEditText"
    /\ UNCHANGED <<todos, storage, newTodo, editingId, filter, now, mounted, issued>>

\* saveEdit storing the draft as typed instead of the trimmed draft
saveEditUntrimmed ==
    LET trimmed == trim(editText) IN
    /\ lastEvent' = "saveEdit"
    /\ \/ /\ editingId \in {Null, <<>>}
          /\ UNCHANGED <<todos, storage, editingId, editText>>
       \/ /\ editingId \notin {Null, <<>>}
          /\ IF trimmed # <<>>
             THEN setTodos([i \in DOMAIN todos.items |->
                              IF todos.items[i].id = editingId
                              THEN [todos.items[i] EXCEPT !.text = editText]
                              ELSE todos.items[i]])
             ELSE UNCHANGED <<todos, storage>>
          /\ editingId' = Null
          /\ editText' = <<>>
    /\ UNCHANGED <<newTodo, filter, now, mounted, issued>>

\* lines 79-91
saveEdit ==
    LET trimmed == trim(editText) IN
    /\ lastEvent' = "saveEdit"
    /\ \/ /\ editingId \in {Null, <<>>}
          /\ UNCHANGED <<todos, storage, editingId, editText>>
       \/ /\ editingId \notin {Null, <<>>}
          /\ IF trimmed # <<>>
             THEN setTodos([i \in DOMAIN todos.items |->
                              IF todos.items[i].id = editingId
                              THEN [todos.items[i] EXCEPT !.text = trimmed]
                              ELSE todos.items[i]])
             ELSE UNCHANGED <<todos, storage>>
          /\ editingId' = Null
          /\ editText' = <<>>
    /\ UNCHANGED <<newTodo, filter, now, mounted, issued>>

\* lines 93-96
cancelEdit ==
    /\ editingId' = Null
    /\ editText' = <<>>
    /\ lastEvent' = "cancelEdit"
    /\ UNCHANGED <<todos, storage, newTodo, filter, now, mounted, issued>>

\* lines 98-104
handleEditKeyDown(key) ==
    IF key = "Enter" THEN saveEdit
    ELSE IF key = "Escape" THEN cancelEdit
    ELSE /\ lastEvent' = "handleEditKeyDown"
         /\ UNCHANGED <<todos, storage, newTodo, editingId, editText, filter, now,
                        mounted, issued>>

\* clearCompleted with the negation dropped from its filter
clearCompletedInverted ==
    /\ setTodos(SelectSeq(todos.items, LAMBDA t : t.completed))
    /\ lastEvent' = "clearCompleted"
    /\ UNCHANGED <<newTodo, editingId, editText, filter, now, mounted, issued>>

\* lines 106-108
clearCompleted ==
    /\ setTodos(SelectSeq(todos.items, LAMBDA t : ~t.completed))
    /\ lastEvent' = "clearCompleted"
    /\ UNCHANGED <<newTodo, editingId, editText, filter, now, mounted, issued>>

\* onClick of a filter tab (line 192)
setFilter(f) ==
    /\ filter' = f
    /\ lastEvent' = "setFilter"
    /\ UNCHANGED <<todos, storage, newTodo, editingId, editText, now, mounted, issued>>

----------------------------------------------------------------------------
(* The events the rendered page offers: each handler is enabled exactly    *)
(* when the element carrying it is rendered.  The code does not order the  *)
(* events: a click on a checkbox or a delete button while the edit input   *)
(* is shown runs its handler whether or not a blur (saveEdit) came first,  *)
(* as with a click that does not move the focus (a synthetic click,        *)
(* assistive technology).                                                  *)

Keys == {"Enter", "Escape", "x"}
Filters == {"all", "active", "completed"}

TypeNewTodo == mounted /\ \E text \in Strings : setNewTodo(text)
Submit == mounted /\ addTodo
\* the checkbox of a listed task (line 227)
ClickToggle == mounted /\ \E i \in Rendered : toggleTodo(todos.items[i].id)
\* the delete buttons of a listed task (lines 299, 322)
ClickDelete == mounted /\ \E i \in Rendered : deleteTodo(todos.items[i].id)
\* the text span (line 264) or the edit button (lines 277-279) of a listed task
ClickEdit ==
    /\ mounted
    /\ \E i \in Rendered :
         /\ ~todos.items[i].completed
         /\ editingId # todos.items[i].id
         /\ startEditing(todos.items[i])
TypeEditText == mounted /\ EditInputShown /\ \E text \in Strings : setEditText(text)
\* onBlur of the edit input (line 258)
BlurEdit == mounted /\ EditInputShown /\ saveEdit
KeyDownEdit == mounted /\ EditInputShown /\ \E key \in Keys : handleEditKeyDown(key)
\* the footer button, rendered when completedCount > 0 (lines 372-382)
ClickClearCompleted == mounted /\ completedCount > 0 /\ clearCompleted
\* the filter tabs, rendered when todos.length > 0 (lines 187-192)
ClickFilter == mounted /\ Len(todos.items) > 0 /\ \E f \in Filters : setFilter(f)

Next ==
    \/ Mount
    \/ TypeNewTodo
    \/ Submit
    \/ ClickToggle
    \/ ClickDelete
    \/ ClickEdit
    \/ TypeEditText
    \/ BlurEdit
    \/ KeyDownEdit
    \/ ClickClearCompleted
    \/ ClickFilter

Spec == Init /\ [][Next]_vars

----------------------------------------------------------------------------
(* The handlers called as functions, in any order and with any id: what a *)
(* caller that does not go through the rendered page can do.  The filter  *)
(* tabs and the key handler are left out: they do not touch the store.    *)

IdUniverse == {generateId(t, r) : t \in 0..MaxClock, r \in Randoms}

CallSetNewTodo == mounted /\ \E text \in Strings : setNewTodo(text)
CallAddTodo == mounted /\ addTodo
CallToggleTodo == mounted /\ \E id \in IdUniverse : toggleTodo(id)
CallDeleteTodo == mounted /\ \E id \in IdUniverse : deleteTodo(id)
CallStartEditing == mounted /\ \E i \in DOMAIN todos.items : startEditing(todos.items[i])
CallSetEditText == mounted /\ editingId # Null /\ \E text \in Strings : setEditText(text)
CallSaveEdit == mounted /\ saveEdit
CallCancelEdit == mounted /\ cancelEdit
CallClearCompleted == mounted /\ clearCompleted

NextStore ==
    \/ Mount
    \/ CallSetNewTodo
    \/ CallAddTodo
    \/ CallToggleTodo
    \/ CallDeleteTodo
    \/ CallStartEditing
    \/ CallSetEditText
    \/ CallSaveEdit
    \/ CallCancelEdit
    \/ CallClearCompleted

SpecStore == Init /\ [][NextStore]_vars

----------------------------------------------------------------------------
(* Claims *)

Items == todos.items
EmptyCollection == JArr(<<>>)

\* C1: before any event, when the stored entry is missing or malformed
\* (unparsable, or JSON that is not an array of tasks), the collection the
\* initializer produced is the empty array.
C1_MalformedHydratesEmpty ==
    (lastEvent = "init" /\ Malformed(storage)) => todos = EmptyCollection

\* C2: no two tasks of the collection share an id, and an id that addTodo
\* generates was never generated earlier in the session.
C2_IdsUnique ==
    /\ [](\A i, j \in DOMAIN Items : i # j => Items[i].id # Items[j].id)
    /\ [][(lastEvent' = "addTodo" /\ Len(todos'.items) > Len(Items))
            => todos'.items[1].id \notin issued]_vars

\* C3: every task of the collection, hydrated or added or edited, has a
\* text that is non-empty and equal to its own trim.
C3_TextTrimmedNonEmpty ==
    \A i \in DOMAIN Items : Items[i].text # <<>> /\ trim(Items[i].text) = Items[i].text

\* C4: once mounted, after every event the storage entry is the
\* serialization of the current collection, and loading it gives back the
\* collection, field for field and in order.
C4_WriteThroughRoundTrip ==
    mounted =>
        /\ storage = Item(Stringify(Items))
        /\ useStateInit(storage) = todos

\* a toggle has just been persisted: two tasks, the one added in this
\* session is completed
C4_Witness ==
    /\ mounted
    /\ lastEvent = "toggleTodo"
    /\ Len(Items) = 2
    /\ Items[1].id \in issued /\ Items[1].completed
    /\ ~Items[2].completed

\* C5: saveEdit on a task of the collection: a draft that trims to empty
\* leaves the collection unchanged; a draft that trims to t sets the text of
\* the task with that id to t and changes nothing else.
C5_Edit ==
    [][(lastEvent' = "saveEdit" /\ editingId \in Ids(Items))
         => LET t == trim(editText) IN
            IF t = <<>> THEN todos' = todos
            ELSE /\ todos'.tag = "array"
                 /\ Len(todos'.items) = Len(Items)
                 /\ \A i \in DOMAIN Items :
                      todos'.items[i] =
                        IF Items[i].id = editingId
                        THEN [id |-> Items[i].id, text |-> t,
                              completed |-> Items[i].completed,
                              createdAt |-> Items[i].createdAt]
                        ELSE Items[i]]_vars

\* the draft " y " was committed on the first of two hydrated tasks
C5_Witness ==
    /\ lastEvent = "saveEdit"
    /\ Len(Items) = 2
    /\ Items[1] = Todo(OldTask.id, <<"y">>, FALSE, OldTask.createdAt)
    /\ Items[2] = OldDone

\* the tasks of items at the positions where keep is TRUE, in order
RECURSIVE Keep(_, _)
Keep(items, keep) ==
    IF Len(items) = 0 THEN <<>>
    ELSE (IF keep[1] THEN <<items[1]>> ELSE <<>>) \o Keep(Tail(items), Tail(keep))

C7_Add ==
    [][lastEvent' = "addTodo"
         => LET t == trim(newTodo) IN
            IF t = <<>> THEN todos' = todos
            ELSE /\ todos'.tag = "array"
                 /\ Len(todos'.items) = Len(Items) + 1
                 /\ todos'.items[1].text = t
                 /\ todos'.items[1].completed = FALSE
                 /\ Tail(todos'.items) = Items]_vars

\* " y " was added in front of the hydrated task
C7_Witness ==
    /\ lastEvent = "addTodo"
    /\ Len(Items) = 2
    /\ Items[1].text = <<"y">> /\ Items[1].id \in issued /\ ~Items[1].completed
    /\ Items[2] = OldTask

\* items is an order-preserving interleaving of a and c, taking from c
\* exactly at the completed positions
RECURSIVE Interleaves(_, _, _)
Interleaves(items, a, c) ==
    IF Len(items) = 0 THEN a = <<>> /\ c = <<>>
    ELSE IF items[1].completed
         THEN Len(c) > 0 /\ c[1] = items[1] /\ Interleaves(Tail(items), a, Tail(c))
         ELSE Len(a) > 0 /\ a[1] = items[1] /\ Interleaves(Tail(items), Tail(a), c)

\* C8: the active and the completed projection are disjoint subsequences
\* that together make up the collection, in its order; the "all" projection
\* is the collection; choosing a filter does not change the collection.
C8_FilterPartition ==
    /\ [](/\ Filtered(Items, "all") = Items
          /\ Interleaves(Items, Filtered(Items, "active"), Filtered(Items, "completed"))
          /\ \A i \in DOMAIN Items :
               Matches("active", Items[i]) # Matches("completed", Items[i]))
    /\ [][lastEvent' = "setFilter" => (todos' = todos /\ storage' = storage)]_vars

\* the completed filter was chosen on a collection with one active and one
\* completed task
C8_Witness ==
    /\ lastEvent = "setFilter"
    /\ filter = "completed"
    /\ Len(Items) = 2
    /\ Len(filteredTodos) = 1
    /\ activeCount = 1

\* C9: toggleTodo and deleteTodo with an id that is not in the collection,
\* and saveEdit while editingId is not in the collection, leave the
\* collection and its stored copy unchanged and the page mounted.
C9_AbsentIdNoOp ==
    [][/\ \A id \in IdUniverse \ Ids(Items) :
            (toggleTodo(id) \/ deleteTodo(id))
                => (todos' = todos /\ storage' = storage /\ mounted')
       /\ (lastEvent' = "saveEdit" /\ editingId # Null /\ editingId \notin Ids(Items))
            => (todos' = todos /\ storage' = storage /\ mounted')]_vars

\* deleteTodo ran and both hydrated tasks are still there: its id was absent
C9_Witness ==
    /\ lastEvent = "deleteTodo"
    /\ Items = <<OldTask, OldDone>>

\* C10: while an edit session is open, editingId is the id of a task that
\* is in the collection and is not completed.
C10_EditTargetPresentActive ==
    editingId # Null =>
        \E i \in DOMAIN Items : Items[i].id = editingId /\ ~Items[i].completed

====
